---- MODULE Spec2Model ----
(***************************************************************************)
(* Model of the Beaker provisioning plugin of tmt                          *)
(* (src/tmt/steps/provision/beaker-mrack.py).                              *)
(*                                                                         *)
(* One GuestBeaker per element of Guests.  start() either does nothing or  *)
(* runs _create(): a create call on the guest's BeakerAPI, then the        *)
(* polling loop tmt.utils.wait(get_new_state, timeout, tick), then the     *)
(* timeout handler.  The backend (mrack / Beaker) is the environment: what *)
(* create, inspect and delete answer is chosen nondeterministically.       *)
(* Time is counted in whole seconds since the polling loop started; an     *)
(* API call takes no time, a sleep takes provision_tick seconds.           *)
(***************************************************************************)
EXTENDS Integers, Sequences, FiniteSets, TLC

\* ------------------------------------------------------------------ bounds
NumGuests == 2
MaxTimeout == 3
MaxTick == 2
MaxStarts == 2

Guests == 1..NumGuests
\* the guests that run in the single-controller specification
SoloGuests == {1}
\* the guests that run side by side in the two-controller specifications
PairGuests == {1, 2}

\* ------------------------------------------------------------------ values
\* Python None (also the falsy "system" of a recipe without a machine)
NoneV == <<>>

\* job id handed out by create_server, and the machine a job may get
JobId(n) == <<"J", n>>
HostOf(job) == <<"host", job[2]>>

\* keys of the colour table: the statuses the plugin knows about
GUEST_STATE_COLORS ==
    [ Reserved |-> "green", New |-> "blue", Scheduled |-> "blue",
      Queued |-> "cyan", Processed |-> "cyan", Waiting |-> "magenta",
      Installing |-> "magenta", Cancelled |-> "yellow", Aborted |-> "yellow",
      Running |-> "green", Completed |-> "green" ]

GUEST_STATE_COLOR_DEFAULT == "green"

\* what a backend may put in response["status"]: the known vocabulary,
\* "Error", and two strings outside any vocabulary
BackendStatuses ==
    DOMAIN GUEST_STATE_COLORS \cup {"Error", "Unknown", "Error, Aborted"}

\* the exception (or its absence) that reaches the caller of start()
MkError(exc, msg, status, timeout) ==
    [exc |-> exc, msg |-> msg, status |-> status, timeout |-> timeout]

NoError == MkError("none", "", "", -1)

\* exceptions raised by the backend client, passed through unchanged
BackendError(op) == MkError("BackendError", op, "", -1)

\* line 465: ProvisionError(f"Failed to create, response: '{response}'.")
CreateResponseError ==
    MkError("ProvisionError", "Failed to create, response", "", -1)

\* line 479: f"Failed to create, unhandled API response '{status}'."
UnhandledResponseError(status) ==
    MkError("ProvisionError", "Failed to create, unhandled API response",
            status, -1)

\* line 492: 'Failed to create, provisioning failed.'
ProvisioningFailedError ==
    MkError("ProvisionError", "Failed to create, provisioning failed.", "", -1)

\* line 507: f'... (--provision-timeout={self.provision_timeout}).'
TimeoutError(timeout) ==
    MkError("ProvisionError",
            "Failed to provision in the given amount of time", "", timeout)

\* one entry of the log of backend calls of the current run
Call(op, handle, result, status, system) ==
    [op |-> op, handle |-> handle, result |-> result,
     status |-> status, system |-> system]

\* ------------------------------------------------------------------- state
VARIABLES
    pc,                 \* where each guest's start() is
    guestname,          \* GuestBeaker.guestname
    guest,              \* GuestBeaker.guest, the address
    bkr_job_id,         \* BeakerAPI._bkr_job_id of the guest's api
    provision_timeout,  \* GuestBeaker.provision_timeout
    provision_tick,     \* GuestBeaker.provision_tick
    elapsed,            \* seconds since wait() was entered
    calls,              \* backend calls of the guest's latest run, in order
    error,              \* what the latest run raised to its caller
    progress,           \* what the "status" progress message shows
    starts,             \* number of start() calls so far
    nextJob,            \* backend: number of the next job
    jobs,               \* backend: the jobs submitted so far, by number
    teardown,           \* the latest remove() call of each guest
    colors,             \* the colour table each guest's run displays with
    mem_string,         \* translator: the size expression to parse
    parsed,             \* translator: what _parse_memory made of it
    hardware,           \* translator: the guest's hardware requirement
    request             \* translator: what create_host_requirement built

\* the controller and its backend
ctlVars == <<pc, guestname, guest, bkr_job_id, provision_timeout,
             provision_tick, elapsed, calls, error, progress, starts,
             nextJob, jobs>>
\* teardown and display
lifeVars == <<teardown, colors>>
\* the hardware requirement translator
hwVars == <<mem_string, parsed, hardware, request>>

vars == <<ctlVars, lifeVars, hwVars>>

\* a job of the backend: who submitted it, and whether it still exists
Job(g) == [owner |-> g, alive |-> TRUE]

\* one remove() call: the handle it deleted (None when it made no backend
\* call), how the call went, and whether the backend had lost the job before
Removal(handle, result, gone) ==
    [handle |-> handle, result |-> result, gone |-> gone]

\* remove() was not called yet
NoRemoval == Removal(NoneV, "none", FALSE)

\* nothing computed yet
NotYet == [state |-> "none"]

\* ------------------------------------------------- get_new_state, inlined
\* Classify with the ready status compared in the wrong case
Classify_ReservedLowercase(status) ==
    IF status = "Aborted" THEN "Failed"
    ELSE IF status \in {"Error, Aborted", "Cancelled"} THEN "Failed"
    ELSE IF status = "reserved" THEN "Ready"
    ELSE "Pending"

\* Classify with every green status of the colour table taken as ready
Classify_CompletedReady(status) ==
    IF status = "Aborted" THEN "Failed"
    ELSE IF status \in {"Error, Aborted", "Cancelled"} THEN "Failed"
    ELSE IF status \in {"Reserved", "Completed"} THEN "Ready"
    ELSE "Pending"

\* lines 478-498: what get_new_state does with response["status"]
Classify(status) ==
    IF status = "Aborted" THEN "Failed"
    ELSE IF status \in {"Error, Aborted", "Cancelled"} THEN "Failed"
    ELSE IF status = "Reserved" THEN "Ready"
    ELSE "Pending"

\* the ProvisionError get_new_state raises for a status classified Failed
FailureError(status) ==
    IF status = "Aborted" THEN UnhandledResponseError(status)
    ELSE ProvisioningFailedError

\* lines 485-487: the colour a status is shown in
StateColor(status) ==
    IF status \in DOMAIN GUEST_STATE_COLORS
    THEN GUEST_STATE_COLORS[status]
    ELSE GUEST_STATE_COLOR_DEFAULT

\* lines 478-489: the progress message after an inspect; "Aborted" raises
\* before the message is updated
ProgressAfter(shown, status) ==
    IF status = "Aborted" THEN shown ELSE <<status, StateColor(status)>>

\* line 476: guestname after an inspect
GuestnameOf(id, system) == IF system = NoneV THEN id ELSE system

\* ------------------------------------------------------ the backend
\* the backend still has the job
JobAlive(job) == jobs[job[2]].alive

\* delete_host: a delete that went through removes the job
JobsAfterDelete(job, result) ==
    IF result = "ok" THEN [jobs EXCEPT ![job[2]].alive = FALSE] ELSE jobs

\* ------------------------------------------------------- tmt.utils.wait
\* the deadline test of the polling loop
DeadlineReached(g) == elapsed[g] >= provision_timeout[g]

\* the sleep between two polls
SleepTick(g) == elapsed[g] + provision_tick[g]

\* -------------------------------------------------------------------- Init
Init ==
    /\ pc = [g \in Guests |-> "idle"]
    /\ guestname = [g \in Guests |-> NoneV]
    /\ guest = [g \in Guests |-> NoneV]
    /\ bkr_job_id = [g \in Guests |-> NoneV]
    /\ provision_timeout \in
          {f \in [Guests -> 1..MaxTimeout] :
                \A g \in Guests \ SoloGuests : f[g] = MaxTimeout}
    /\ provision_tick \in
          {f \in [Guests -> 1..MaxTick] :
                \A g \in Guests \ SoloGuests : f[g] = 1}
    /\ elapsed = [g \in Guests |-> 0]
    /\ calls = [g \in Guests |-> <<>>]
    /\ error = [g \in Guests |-> NoError]
    /\ progress = [g \in Guests |-> NoneV]
    /\ starts = [g \in Guests |-> 0]
    /\ nextJob = 1
    /\ jobs = <<>>
    /\ teardown = [g \in Guests |-> NoRemoval]
    /\ colors = [g \in Guests |-> GUEST_STATE_COLORS]
    /\ mem_string = <<>>
    /\ parsed = NotYet
    /\ hardware = NotYet
    /\ request = NotYet

\* ----------------------------------------------------------------- start()
\* line 523: the guard of start()
NeedsCreate(g) == guestname[g] = NoneV \/ guest[g] = NoneV

CanStart(g) == pc[g] # "Polling" /\ starts[g] < MaxStarts

\* start() on a guest that has both guestname and address: nothing happens
StartNoop(g) ==
    /\ CanStart(g)
    /\ ~NeedsCreate(g)
    /\ starts' = [starts EXCEPT ![g] = @ + 1]
    /\ UNCHANGED <<pc, guestname, guest, bkr_job_id, provision_timeout,
                   provision_tick, elapsed, calls, error, progress, nextJob,
                   jobs, lifeVars, hwVars>>

\* start() -> _create(), api.create raises: create_server failed, nothing
\* is assigned (line 229) and the exception leaves _create
StartCreateRaises(g) ==
    /\ CanStart(g)
    /\ NeedsCreate(g)
    /\ starts' = [starts EXCEPT ![g] = @ + 1]
    /\ calls' = [calls EXCEPT ![g] =
                    <<Call("create", NoneV, "raise", "", NoneV)>>]
    /\ pc' = [pc EXCEPT ![g] = "Failed"]
    /\ error' = [error EXCEPT ![g] = BackendError("create")]
    /\ elapsed' = [elapsed EXCEPT ![g] = 0]
    /\ UNCHANGED <<guestname, guest, bkr_job_id, provision_timeout,
                   provision_tick, progress, nextJob, jobs, lifeVars, hwVars>>

\* StartCreateEmpty without the else branch of line 464: the run goes on
\* to poll the job it has no response for
StartCreateEmpty_NoRaise(g) ==
    /\ pc[g] # "Polling" /\ starts[g] < MaxStarts
    /\ guestname[g] = NoneV \/ guest[g] = NoneV
    /\ starts' = [starts EXCEPT ![g] = @ + 1]
    /\ calls' = [calls EXCEPT ![g] =
                    <<Call("create", NoneV, "empty", "", NoneV)>>]
    /\ bkr_job_id' = [bkr_job_id EXCEPT ![g] = JobId(nextJob)]
    /\ nextJob' = nextJob + 1
    /\ jobs' = Append(jobs, Job(g))
    /\ guestname' = [guestname EXCEPT ![g] = JobId(nextJob)]
    /\ pc' = [pc EXCEPT ![g] = "Polling"]
    /\ error' = [error EXCEPT ![g] = NoError]
    /\ elapsed' = [elapsed EXCEPT ![g] = 0]
    /\ progress' = [progress EXCEPT ![g] = NoneV]
    /\ UNCHANGED <<guest, provision_timeout, provision_tick, lifeVars, hwVars>>

\* start() -> _create(), api.create returns a falsy response (lines 461-466):
\* the job was submitted (line 229) but the recipe info is empty
StartCreateEmpty(g) ==
    /\ CanStart(g)
    /\ NeedsCreate(g)
    /\ starts' = [starts EXCEPT ![g] = @ + 1]
    /\ calls' = [calls EXCEPT ![g] =
                    <<Call("create", NoneV, "empty", "", NoneV)>>]
    /\ bkr_job_id' = [bkr_job_id EXCEPT ![g] = JobId(nextJob)]
    /\ nextJob' = nextJob + 1
    /\ jobs' = Append(jobs, Job(g))
    /\ pc' = [pc EXCEPT ![g] = "Failed"]
    /\ error' = [error EXCEPT ![g] = CreateResponseError]
    /\ elapsed' = [elapsed EXCEPT ![g] = 0]
    /\ UNCHANGED <<guestname, guest, provision_timeout, provision_tick,
                   progress, lifeVars, hwVars>>

\* StartCreateOk that submits the request a second time
StartCreateOk_Resubmits(g) ==
    /\ CanStart(g)
    /\ NeedsCreate(g)
    /\ starts' = [starts EXCEPT ![g] = @ + 1]
    /\ calls' = [calls EXCEPT ![g] =
                    <<Call("create", JobId(nextJob), "ok", "", NoneV),
                      Call("create", JobId(nextJob), "ok", "", NoneV)>>]
    /\ bkr_job_id' = [bkr_job_id EXCEPT ![g] = JobId(nextJob)]
    /\ nextJob' = nextJob + 1
    /\ jobs' = Append(jobs, Job(g))
    /\ guestname' = [guestname EXCEPT ![g] = JobId(nextJob)]
    /\ pc' = [pc EXCEPT ![g] = "Polling"]
    /\ error' = [error EXCEPT ![g] = NoError]
    /\ elapsed' = [elapsed EXCEPT ![g] = 0]
    /\ progress' = [progress EXCEPT ![g] = NoneV]
    /\ UNCHANGED <<guest, provision_timeout, provision_tick, lifeVars, hwVars>>

\* start() -> _create(), api.create returns the recipe info (lines 459-469);
\* the run enters the polling loop
StartCreateOk(g) ==
    /\ CanStart(g)
    /\ NeedsCreate(g)
    /\ starts' = [starts EXCEPT ![g] = @ + 1]
    /\ calls' = [calls EXCEPT ![g] =
                    <<Call("create", JobId(nextJob), "ok", "", NoneV)>>]
    /\ bkr_job_id' = [bkr_job_id EXCEPT ![g] = JobId(nextJob)]
    /\ nextJob' = nextJob + 1
    /\ jobs' = Append(jobs, Job(g))
    /\ guestname' = [guestname EXCEPT ![g] = JobId(nextJob)]
    /\ pc' = [pc EXCEPT ![g] = "Polling"]
    /\ error' = [error EXCEPT ![g] = NoError]
    /\ elapsed' = [elapsed EXCEPT ![g] = 0]
    /\ progress' = [progress EXCEPT ![g] = NoneV]
    /\ UNCHANGED <<guest, provision_timeout, provision_tick, lifeVars, hwVars>>

\* ------------------------------------------------------ the polling loop
\* PollOutcome that takes the warning colour of the table for a failure
PollOutcome_ByColour(g, status) ==
    IF status \in DOMAIN colors[g] /\ colors[g][status] = "yellow"
    THEN "Failed" ELSE Classify(status)

\* lines 478-498: what a poll of guest g does with the status it read; the
\* colour of the status (lines 485-489) plays no part in it
PollOutcome(g, status) == Classify(status)

\* CallsAfterInspect with a cleanup call added to the failure path
CallsAfterInspect_DeleteOnFailure(g, status, system) ==
    IF Classify(status) = "Failed"
    THEN Append(Append(calls[g],
                  Call("inspect", bkr_job_id[g], "ok", status, system)),
                Call("delete", bkr_job_id[g], "ok", "", NoneV))
    ELSE Append(calls[g],
                Call("inspect", bkr_job_id[g], "ok", status, system))

\* lines 475-498: the backend calls of the run after one answered inspect
CallsAfterInspect(g, status, system) ==
    Append(calls[g], Call("inspect", bkr_job_id[g], "ok", status, system))

\* AddressOf that keeps the name of the guest, which falls back to the job
\* id when the response has no system
AddressOf_Name(system, name) == name

\* line 511: the address kept from the response get_new_state returned
AddressOf(system, name) == system

\* lines 485-489 with the table of guest g
ProgressShown(g, status) ==
    IF status = "Aborted" THEN progress[g]
    ELSE <<status, IF status \in DOMAIN colors[g] THEN colors[g][status]
                   ELSE GUEST_STATE_COLOR_DEFAULT>>

\* one round of wait(): get_new_state() inspects the job and the backend
\* answers with one of the given statuses and, possibly, the machine of
\* the job
InspectOn(g, statuses, systems) ==
    /\ pc[g] = "Polling"
    /\ ~DeadlineReached(g)
    /\ \E status \in statuses, system \in systems :
          /\ calls' = [calls EXCEPT ![g] =
                CallsAfterInspect(g, status, system)]
          /\ guestname' = [guestname EXCEPT ![g] =
                GuestnameOf(bkr_job_id[g], system)]
          /\ progress' = [progress EXCEPT ![g] = ProgressShown(g, status)]
          /\ CASE PollOutcome(g, status) = "Failed" ->
                    /\ pc' = [pc EXCEPT ![g] = "Failed"]
                    /\ error' = [error EXCEPT ![g] = FailureError(status)]
                    /\ UNCHANGED <<guest, elapsed>>
               [] PollOutcome(g, status) = "Ready" ->
                    /\ pc' = [pc EXCEPT ![g] = "Ready"]
                    /\ guest' = [guest EXCEPT ![g] =
                          AddressOf(system, GuestnameOf(bkr_job_id[g], system))]
                    /\ UNCHANGED <<error, elapsed>>
               [] OTHER ->
                    /\ elapsed' = [elapsed EXCEPT ![g] = SleepTick(g)]
                    /\ UNCHANGED <<pc, guest, error>>
    /\ UNCHANGED <<bkr_job_id, provision_timeout, provision_tick,
                   starts, nextJob, jobs, lifeVars, hwVars>>

\* a poll against a backend that may answer with any status, with or
\* without a machine
Inspect(g) ==
    InspectOn(g, BackendStatuses, {NoneV, HostOf(bkr_job_id[g])})

\* one round of wait() in which api.inspect() raises: nothing in
\* get_new_state or _create catches it
InspectRaises(g) ==
    /\ pc[g] = "Polling"
    /\ ~DeadlineReached(g)
    /\ calls' = [calls EXCEPT ![g] =
          Append(@, Call("inspect", bkr_job_id[g], "raise", "", NoneV))]
    /\ pc' = [pc EXCEPT ![g] = "Failed"]
    /\ error' = [error EXCEPT ![g] = BackendError("inspect")]
    /\ UNCHANGED <<guestname, guest, bkr_job_id, provision_timeout,
                   provision_tick, elapsed, progress, starts, nextJob,
                   jobs, lifeVars, hwVars>>

\* lines 505-509: wait() gave up; delete the job, then raise the timeout
\* error.  When api.delete() raises, that exception leaves the handler.
WaitTimedOut(g) ==
    /\ pc[g] = "Polling"
    /\ DeadlineReached(g)
    /\ \E result \in {"ok", "raise"} :
          /\ calls' = [calls EXCEPT ![g] =
                Append(@, Call("delete", bkr_job_id[g], result, "", NoneV))]
          /\ error' = [error EXCEPT ![g] =
                IF result = "ok" THEN TimeoutError(provision_timeout[g])
                ELSE BackendError("delete")]
          /\ jobs' = JobsAfterDelete(bkr_job_id[g], result)
    /\ pc' = [pc EXCEPT ![g] = "TimedOut"]
    /\ UNCHANGED <<guestname, guest, bkr_job_id, provision_timeout,
                   provision_tick, elapsed, progress, starts, nextJob,
                   lifeVars, hwVars>>

\* ------------------------------------------------------------------- Next
Step(g) ==
    \/ StartNoop(g)
    \/ StartCreateRaises(g)
    \/ StartCreateEmpty(g)
    \/ StartCreateOk(g)
    \/ Inspect(g)
    \/ InspectRaises(g)
    \/ WaitTimedOut(g)

Next == \E g \in SoloGuests : Step(g)

Spec == Init /\ [][Next]_vars

\* --------------------------------------------------------------- remove()
\* remove() is called between the start() calls of its guest
CanRemove(g) == pc[g] # "Polling"

\* lines 529-530: remove() on a guest without guestname returns at once
RemoveNoop(g) ==
    /\ CanRemove(g)
    /\ guestname[g] = NoneV
    /\ teardown' = [teardown EXCEPT ![g] = Removal(NoneV, "noop", FALSE)]
    /\ UNCHANGED <<ctlVars, colors, hwVars>>

\* remove() through one api object shared by all guests, which holds the
\* job of the latest create
Remove_SharedApi(g) ==
    /\ CanRemove(g)
    /\ guestname[g] # NoneV
    /\ \E result \in {"ok", "raise"} :
          /\ teardown' = [teardown EXCEPT ![g] =
                Removal(JobId(nextJob - 1), result,
                        ~JobAlive(JobId(nextJob - 1)))]
          /\ jobs' = JobsAfterDelete(JobId(nextJob - 1), result)
    /\ UNCHANGED <<pc, guestname, guest, bkr_job_id, provision_timeout,
                   provision_tick, elapsed, calls, error, progress, starts,
                   nextJob, colors, hwVars>>

\* line 532: remove() deletes the job of the guest's api; whatever
\* delete_host raises leaves remove(), and guestname stays as it is
Remove(g) ==
    /\ CanRemove(g)
    /\ guestname[g] # NoneV
    /\ \E result \in {"ok", "raise"} :
          /\ teardown' = [teardown EXCEPT ![g] =
                Removal(bkr_job_id[g], result, ~JobAlive(bkr_job_id[g]))]
          /\ jobs' = JobsAfterDelete(bkr_job_id[g], result)
    /\ UNCHANGED <<pc, guestname, guest, bkr_job_id, provision_timeout,
                   provision_tick, elapsed, calls, error, progress, starts,
                   nextJob, colors, hwVars>>

\* ------------------------------------------- controllers side by side
\* the statuses the backend answers with when two controllers run
LifeStatuses == {"New", "Reserved", "Cancelled"}

\* two freshly built guests with the same timeout and tick
InitLife ==
    /\ pc = [g \in Guests |-> "idle"]
    /\ guestname = [g \in Guests |-> NoneV]
    /\ guest = [g \in Guests |-> NoneV]
    /\ bkr_job_id = [g \in Guests |-> NoneV]
    /\ provision_timeout = [g \in Guests |-> 1]
    /\ provision_tick = [g \in Guests |-> 1]
    /\ elapsed = [g \in Guests |-> 0]
    /\ calls = [g \in Guests |-> <<>>]
    /\ error = [g \in Guests |-> NoError]
    /\ progress = [g \in Guests |-> NoneV]
    /\ starts = [g \in Guests |-> 0]
    /\ nextJob = 1
    /\ jobs = <<>>
    /\ teardown = [g \in Guests |-> NoRemoval]
    /\ colors = [g \in Guests |-> GUEST_STATE_COLORS]
    /\ mem_string = <<>>
    /\ parsed = NotYet
    /\ hardware = NotYet
    /\ request = NotYet

\* create failures are left to the single-controller specification
StepLife(g) ==
    \/ StartNoop(g)
    \/ StartCreateOk(g)
    \/ InspectOn(g, LifeStatuses, {HostOf(bkr_job_id[g])})
    \/ InspectRaises(g)
    \/ WaitTimedOut(g)
    \/ RemoveNoop(g)
    \/ Remove(g)

NextLife == \E g \in PairGuests : StepLife(g)

SpecLife == InitLife /\ [][NextLife]_vars

\* ------------------------------------------------ hardware translator
\* A string is a tuple of one-character strings; mem_string.split(" ")
\* turns it into chunks, which are strings of the same kind.
DigitChars == <<"0", "1", "2", "3", "4", "5", "6", "7", "8", "9">>
UpperChars == {"A", "B", "C", "D", "E", "F", "G", "H", "I", "J", "K", "L",
               "M", "N", "O", "P", "Q", "R", "S", "T", "U", "V", "W", "X",
               "Y", "Z"}
LowerChars == {"a", "b", "c", "d", "e", "f", "g", "h", "i", "j", "k", "l",
               "m", "n", "o", "p", "q", "r", "s", "t", "u", "v", "w", "x",
               "y", "z"}

IsDigit(c) == \E d \in 1..10 : DigitChars[d] = c
DigitValue(c) == (CHOOSE d \in 1..10 : DigitChars[d] = c) - 1

\* str.split(" "): cut at every single space, empty chunks kept
RECURSIVE Split(_)
Split(str) ==
    IF \A i \in 1..Len(str) : str[i] # " " THEN <<str>>
    ELSE LET i == CHOOSE k \in 1..Len(str) :
                     str[k] = " " /\ \A j \in 1..(k - 1) : str[j] # " "
         IN <<SubSeq(str, 1, i - 1)>> \o Split(SubSeq(str, i + 1, Len(str)))

\* int(chunk) succeeds: an optional sign and at least one digit
IntParses(chunk) ==
    LET digits == IF chunk # <<>> /\ chunk[1] \in {"+", "-"}
                  THEN Tail(chunk) ELSE chunk
    IN digits # <<>> /\ \A i \in 1..Len(digits) : IsDigit(digits[i])

RECURSIVE DigitsValue(_)
DigitsValue(digits) ==
    IF digits = <<>> THEN 0
    ELSE 10 * DigitsValue(SubSeq(digits, 1, Len(digits) - 1))
            + DigitValue(digits[Len(digits)])

\* int(chunk), when it succeeds
IntValue(chunk) ==
    IF chunk[1] = "-" THEN 0 - DigitsValue(Tail(chunk))
    ELSE IF chunk[1] = "+" THEN DigitsValue(Tail(chunk))
    ELSE DigitsValue(chunk)

\* chunk.isupper(): some cased character, and no lowercase one
IsUpper(chunk) ==
    /\ \E i \in 1..Len(chunk) : chunk[i] \in UpperChars
    /\ \A i \in 1..Len(chunk) : chunk[i] \notin LowerChars

\* size_translation with decimal factors
size_translation_Decimal ==
    (<<"T", "B">> :> 1000000) @@ (<<"G", "B">> :> 1000) @@ (<<"M", "B">> :> 1)

\* lines 52-56
size_translation ==
    (<<"T", "B">> :> 1048576) @@ (<<"G", "B">> :> 1024) @@ (<<"M", "B">> :> 1)

\* the state of the loop of _parse_memory, and what the call ends with:
\* amount is meaningful only when has is TRUE (otherwise it is None), an
\* empty operator is None, exc names the exception that left the loop
ParseState(state, exc, operator, amount, has) ==
    [state |-> state, exc |-> exc, operator |-> operator,
     amount |-> amount, has |-> has]

\* lines 83-89: one round of the loop
ParseChunk(st, chunk) ==
    IF st.state = "raised" THEN st
    ELSE IF IntParses(chunk)
    THEN [st EXCEPT !.amount = IntValue(chunk), !.has = TRUE]
    ELSE IF IsUpper(chunk)
    THEN IF chunk \notin DOMAIN size_translation
         THEN ParseState("raised", "KeyError", st.operator, 0, FALSE)
         ELSE IF ~st.has
         THEN ParseState("raised", "TypeError", st.operator, 0, FALSE)
         ELSE [st EXCEPT !.amount = @ * size_translation[chunk]]
    ELSE [st EXCEPT !.operator = chunk]

RECURSIVE ParseLoop(_, _)
ParseLoop(st, chunks) ==
    IF chunks = <<>> THEN st
    ELSE ParseLoop(ParseChunk(st, Head(chunks)), Tail(chunks))

\* lines 78-93
parse_memory(str) ==
    LET st == ParseLoop(ParseState("loop", "", <<>>, 0, FALSE), Split(str))
    IN IF st.state = "raised" THEN st
       ELSE [st EXCEPT !.state = "returned",
                       !.operator = IF @ = <<>> THEN <<"=">> ELSE @]

\* a dict with the given keys; m, d and c are the values of its memory,
\* disk and cpu keys
HwDict(keys, m, d, c) ==
    [k \in keys |-> CASE k = "memory" -> m
                      [] k = "disk" -> d
                      [] OTHER -> c]

\* lines 107-112, 117-124: {_value: amount, _op: operator} of one parsed
\* size; has = FALSE stands for a _value of None
Constraint(p) == [value |-> p.amount, has |-> p.has, op |-> p.operator]

\* lines 125-139: the cpu dict, a key per truthy field of val
CpuReq(val) ==
    LET present == {k \in DOMAIN val : val[k] # 0}
        keys == {IF k = "processors" THEN "cpu_count" ELSE "model" :
                    k \in present}
    IN [k \in keys |->
           [value |-> IF k = "cpu_count" THEN val["processors"]
                      ELSE val["model"],
            has |-> TRUE, op |-> <<"=">>]]

\* what a call of the translator ends with: the list hostRequires.and, or
\* the exception that left it
Translated(state, exc, and_req) ==
    [state |-> state, exc |-> exc, and_req |-> and_req]

\* lines 95-167
translate_tmt_hw(hw) ==
    LET mem == IF "memory" \in DOMAIN hw
               THEN <<parse_memory(hw["memory"])>> ELSE <<>>
        dsk == IF "disk" \in DOMAIN hw
               THEN [i \in 1..Len(hw["disk"]) |->
                        parse_memory(hw["disk"][i].size)]
               ELSE <<>>
        parses == mem \o dsk
        system == [i \in 1..Len(mem) |-> [memory |-> Constraint(mem[i])]]
        disks == [i \in 1..Len(dsk) |->
                     [disk |-> [size |-> Constraint(dsk[i])]]]
        cpu == IF "cpu" \in DOMAIN hw THEN CpuReq(hw["cpu"]) ELSE <<>>
        cpus == IF DOMAIN cpu = {} THEN <<>> ELSE <<cpu>>
    IN IF \E i \in 1..Len(parses) : parses[i].state = "raised"
       THEN LET i == CHOOSE k \in 1..Len(parses) :
                         /\ parses[k].state = "raised"
                         /\ \A j \in 1..(k - 1) : parses[j].state # "raised"
            IN Translated("raised", parses[i].exc, <<>>)
       ELSE Translated("returned", "", system \o disks \o cpus)

\* lines 436-457: environment['hw'] as _create builds it; the arch key is
\* always there, the user's hardware goes under the key constraints
EnvironmentHw(hw) ==
    IF hw.given THEN [arch |-> "x86_64", constraints |-> hw.dict]
    ELSE [arch |-> "x86_64"]

\* lines 169-193, called at line 227 with the data of _create: the
\* mrack_beaker part of the request handed to create_server
create_host_requirement(hw) ==
    translate_tmt_hw(EnvironmentHw(hw))

\* ------------------------------------- inputs of the hardware translator
MaxAmount == 12
MaxDisks == 2

RECURSIVE ToDigits(_)
ToDigits(n) ==
    IF n < 10 THEN <<DigitChars[n + 1]>>
    ELSE ToDigits(n \div 10) \o <<DigitChars[(n % 10) + 1]>>

\* token lists joined by single spaces, absent (empty) tokens left out
RECURSIVE Join(_)
Join(tokens) ==
    IF tokens = <<>> THEN <<>>
    ELSE IF Head(tokens) = <<>> THEN Join(Tail(tokens))
    ELSE IF Join(Tail(tokens)) = <<>> THEN Head(tokens)
    ELSE Head(tokens) \o <<" ">> \o Join(Tail(tokens))

Operators == {<<"=">>, <<"<">>, <<"<", "=">>, <<">">>, <<">", "=">>}
Units == {<<"M", "B">>, <<"G", "B">>, <<"T", "B">>}

\* "[op] amount [unit]"
SizeExpr(op, n, unit) == Join(<<op, ToDigits(n), unit>>)

ValidSizes ==
    {SizeExpr(op, n, unit) :
        op \in Operators \cup {<<>>}, n \in 1..MaxAmount, unit \in Units}

\* sizes with a lowercase or unknown unit, a non-numeric amount, or none
BadUnitSizes ==
    {SizeExpr(op, n, unit) :
        op \in {<<>>, <<">", "=">>}, n \in {1, MaxAmount},
        unit \in {<<"g", "b">>, <<"K", "B">>, <<"b", "y", "t", "e", "s">>}}
BadAmountSizes ==
    {Join(<<op, amount, unit>>) :
        op \in {<<>>, <<">", "=">>},
        amount \in {<<>>, <<"e", "i", "g", "h", "t">>, <<"8", "x">>},
        unit \in {<<>>, <<"G", "B">>}}
BadSizes == BadUnitSizes \cup BadAmountSizes

MemStrings ==
    ValidSizes \cup BadSizes
        \cup {SizeExpr(op, MaxAmount, <<>>) : op \in Operators \cup {<<>>}}

HwSizes == {SizeExpr(<<">", "=">>, 8, <<"G", "B">>),
            SizeExpr(<<>>, MaxAmount, <<"M", "B">>)}
HwDisks == UNION {[1..n -> [size : HwSizes]] : n \in 0..MaxDisks}
HwCpus == {[k \in keys |-> IF k = "processors" THEN 2 ELSE 62] :
              keys \in SUBSET {"processors", "model"}}
NoHardware == [given |-> FALSE, dict |-> <<>>]
Hardwares ==
    {NoHardware} \cup
    {[given |-> TRUE, dict |-> HwDict(keys, m, d, c)] :
        keys \in SUBSET {"memory", "disk", "cpu"},
        m \in HwSizes, d \in HwDisks, c \in HwCpus}

\* ----------------------------------- the translator on its bounded inputs
\* an idle plugin with a size string on its own, or with a hardware
\* requirement and one of the sizes it is built from
InitHw ==
    /\ pc = [g \in Guests |-> "idle"]
    /\ guestname = [g \in Guests |-> NoneV]
    /\ guest = [g \in Guests |-> NoneV]
    /\ bkr_job_id = [g \in Guests |-> NoneV]
    /\ provision_timeout = [g \in Guests |-> 1]
    /\ provision_tick = [g \in Guests |-> 1]
    /\ elapsed = [g \in Guests |-> 0]
    /\ calls = [g \in Guests |-> <<>>]
    /\ error = [g \in Guests |-> NoError]
    /\ progress = [g \in Guests |-> NoneV]
    /\ starts = [g \in Guests |-> 0]
    /\ nextJob = 1
    /\ jobs = <<>>
    /\ teardown = [g \in Guests |-> NoRemoval]
    /\ colors = [g \in Guests |-> GUEST_STATE_COLORS]
    /\ \/ mem_string \in MemStrings /\ hardware = NoHardware
       \/ mem_string \in HwSizes /\ hardware \in Hardwares
    /\ parsed = NotYet
    /\ request = NotYet

\* _parse_memory(mem_string)
ParseMemory ==
    /\ parsed.state = "none"
    /\ parsed' = parse_memory(mem_string)
    /\ UNCHANGED <<ctlVars, lifeVars, mem_string, hardware, request>>

\* what a translation leaves in request: who was called, and the outcome
Request(via, t) ==
    [via |-> via, state |-> t.state, exc |-> t.exc, and_req |-> t.and_req]

\* _translate_tmt_hw on the user's hardware dict itself, as the lines
\* commented out at 173-179 hand it over
TranslateTmtHw ==
    /\ request.state = "none"
    /\ hardware.given
    /\ request' = Request("translate", translate_tmt_hw(hardware.dict))
    /\ UNCHANGED <<ctlVars, lifeVars, mem_string, parsed, hardware>>

\* lines 436-459 and 227: the data _create builds, translated by
\* create_host_requirement on the way to create_server
CreateHostRequirement ==
    /\ request.state = "none"
    /\ request' = Request("create", create_host_requirement(hardware))
    /\ UNCHANGED <<ctlVars, lifeVars, mem_string, parsed, hardware>>

NextHw == ParseMemory \/ TranslateTmtHw \/ CreateHostRequirement

SpecHw == InitHw /\ [][NextHw]_vars

\* the entries of hostRequires.and that hold exactly the given keys
EntriesWith(keys) ==
    {i \in 1..Len(request.and_req) : DOMAIN request.and_req[i] = keys}

\* the tree the user's hardware asks for: one memory group, one size
\* constraint per disk element, one entry for the present cpu fields
FullTree(hw) ==
    /\ "memory" \in DOMAIN hw =>
          \E i \in EntriesWith({"memory"}) :
              request.and_req[i].memory = Constraint(parse_memory(hw["memory"]))
    /\ "disk" \in DOMAIN hw =>
          Cardinality(EntriesWith({"disk"})) = Len(hw["disk"])
    /\ ("cpu" \in DOMAIN hw /\ DOMAIN hw["cpu"] # {}) =>
          \E i \in 1..Len(request.and_req) :
              request.and_req[i] = CpuReq(hw["cpu"])

HoldsConstraint(hw) ==
    \/ "memory" \in DOMAIN hw
    \/ "disk" \in DOMAIN hw /\ hw["disk"] # <<>>
    \/ "cpu" \in DOMAIN hw /\ DOMAIN hw["cpu"] # {}

\* C13: whenever the hardware requirement of a guest holds a memory, disk
\* or cpu constraint, the request built on the way from _create through
\* create_host_requirement carries the full constraint tree: a memory
\* group, one size constraint per disk element and an entry for the present
\* cpu fields; nothing the user supplied is dropped.
C13_RequestCarriesFullTree ==
    (/\ request.state # "none"
     /\ request.via = "create"
     /\ hardware.given
     /\ HoldsConstraint(hardware.dict))
        => (request.state = "returned" /\ FullTree(hardware.dict))

\* the unit factors relative to MB
UnitFactor(unit) ==
    CASE unit = <<"M", "B">> -> 1
      [] unit = <<"G", "B">> -> 1024
      [] unit = <<"T", "B">> -> 1048576

\* C14: for every valid size expression "[op] amount [unit]" with op in
\* {=, <, <=, >, >=} and unit in {MB, GB, TB}, _parse_memory returns the
\* operator given, or "=" when there is no operator token, and the amount
\* multiplied by the factor of the unit relative to MB.
C14_ValidSizeParses ==
    \A op \in Operators \cup {<<>>}, n \in 1..MaxAmount, unit \in Units :
        (mem_string = SizeExpr(op, n, unit) /\ parsed.state # "none")
            => /\ parsed.state = "returned"
               /\ parsed.operator = (IF op = <<>> THEN <<"=">> ELSE op)
               /\ parsed.has
               /\ parsed.amount = n * UnitFactor(unit)

\* ">= 8 GB" has been parsed to (">=", 8192)
C14_Witness ==
    /\ mem_string = <<">", "=", " ", "8", " ", "G", "B">>
    /\ parsed.state = "returned"
    /\ parsed.operator = <<">", "=">>
    /\ parsed.amount = 8192

\* C15: a size expression with a non-numeric or missing amount, or with a
\* lowercase or unknown unit token, makes the parse fail; it never yields
\* an operator or an amount taken from the bad token.
C15_BadSizeFails ==
    (mem_string \in BadSizes /\ parsed.state # "none")
        => parsed.state = "raised"

\* --------------------------------------------------- reading the call log
Last(s) == s[Len(s)]

IsInspect(c) == c.op = "inspect"
IsDelete(c) == c.op = "delete"

InspectCalls(g) == SelectSeq(calls[g], IsInspect)
DeleteCalls(g) == SelectSeq(calls[g], IsDelete)

\* the latest run got a handle from create
CreateReturnedHandle(g) == calls[g] # <<>> /\ calls[g][1].result = "ok"

\* the latest run is over
RunEnded(g) == pc[g] \in {"Ready", "Failed", "TimedOut"}

\* the last backend call of the latest run is an inspect that was answered
LastIsAnsweredInspect(g) ==
    /\ calls[g] # <<>>
    /\ Last(calls[g]).op = "inspect"
    /\ Last(calls[g]).result = "ok"

\* the vocabulary as the specification divides it
StillWorkingStatuses ==
    {"New", "Queued", "Scheduled", "Processed", "Waiting", "Installing",
     "Running"}
TerminalSuccessStatuses == {"Reserved", "Completed"}
TerminalFailureStatuses == {"Aborted", "Error", "Cancelled"}
KnownVocabulary ==
    StillWorkingStatuses \cup TerminalSuccessStatuses
        \cup TerminalFailureStatuses

\* statuses that the specification and the code both take as still working
\* (an unknown string included), and the one both take as ready
AgreedPending == StillWorkingStatuses \cup {"Unknown"}
AgreedReady == {"Reserved"}

\* ------------------------------------------------------------------ C1
\* the backend answered every inspect of the latest run, always with a
\* still-working status
NeverReadyNorFailed(g) ==
    \A i \in 1..Len(calls[g]) :
        calls[g][i].op = "inspect" =>
            /\ calls[g][i].result = "ok"
            /\ calls[g][i].status \in AgreedPending

\* C1: a run that got a handle and never saw a ready or terminal-failure
\* status ends in a timeout failure whose message names the configured
\* provision timeout, after exactly one delete call for the handle, which
\* is the last backend call of the run.
C1_TimeoutDeletesOnceThenFails ==
    \A g \in Guests :
        (RunEnded(g) /\ CreateReturnedHandle(g) /\ NeverReadyNorFailed(g)) =>
            /\ pc[g] = "TimedOut"
            /\ error[g] = TimeoutError(provision_timeout[g])
            /\ Len(DeleteCalls(g)) = 1
            /\ Last(calls[g]).op = "delete"
            /\ Last(calls[g]).handle = calls[g][1].handle

\* ------------------------------------------------------------------ C2
\* the latest run so far: create answered, then n answered inspects
OnlyAnsweredInspects(g) ==
    /\ CreateReturnedHandle(g)
    /\ \A i \in 2..Len(calls[g]) :
          calls[g][i].op = "inspect" /\ calls[g][i].result = "ok"

\* C2: N Pending answers followed by a Ready answer give success after
\* exactly N+1 inspects and no delete; while only Pending answers came the
\* run keeps polling, one tick per answer, and it times out only once
\* (number of inspects) * tick has reached the timeout.
C2_PendingThenReadySucceeds ==
    \A g \in Guests :
        LET n == Len(calls[g]) - 1 IN
        /\ ( /\ OnlyAnsweredInspects(g)
             /\ \A i \in 2..Len(calls[g]) :
                    calls[g][i].status \in AgreedPending )
           => ( pc[g] = "Polling" /\ elapsed[g] = n * provision_tick[g] )
        /\ ( /\ OnlyAnsweredInspects(g)
             /\ n >= 1
             /\ \A i \in 2..n : calls[g][i].status \in AgreedPending
             /\ Last(calls[g]).status \in AgreedReady )
           => ( /\ pc[g] = "Ready"
                /\ error[g] = NoError
                /\ Len(InspectCalls(g)) = n
                /\ Len(DeleteCalls(g)) = 0 )
        /\ pc[g] = "TimedOut"
           => Len(InspectCalls(g)) * provision_tick[g] >= provision_timeout[g]
        /\ pc[g] = "Ready"
           => ( /\ LastIsAnsweredInspect(g)
                /\ Last(calls[g]).status \in AgreedReady
                /\ Len(DeleteCalls(g)) = 0
                /\ \A i \in 2..(Len(calls[g]) - 1) :
                       calls[g][i].status \notin AgreedReady )

\* a run that succeeded on its third inspect, after two Pending answers
C2_Witness ==
    /\ pc[1] = "Ready"
    /\ Len(calls[1]) = 4
    /\ calls[1][2].status \in AgreedPending
    /\ calls[1][3].status \in AgreedPending
    /\ calls[1][4].status = "Reserved"

\* ------------------------------------------------------------------ C3
\* C3: when create raises or answers with a falsy response the run fails
\* at once: create is its only backend call (no inspect, no delete), and
\* guestname is left as it was, unset on a guest that never had one.
C3_CreateFailureInvariant ==
    \A g \in Guests :
        (calls[g] # <<>> /\ calls[g][1].result \in {"raise", "empty"}) =>
            /\ pc[g] = "Failed"
            /\ error[g] # NoError
            /\ Len(calls[g]) = 1
            /\ Len(InspectCalls(g)) = 0
            /\ Len(DeleteCalls(g)) = 0
            /\ (starts[g] = 1 => guestname[g] = NoneV)

C3_CreateFailureStep ==
    \A g \in Guests :
        ( /\ starts'[g] = starts[g] + 1
          /\ NeedsCreate(g)
          /\ calls'[g][1].result \in {"raise", "empty"} )
        => ( guestname'[g] = guestname[g] /\ guest'[g] = guest[g] )

C3_CreateFailureIsImmediate ==
    []C3_CreateFailureInvariant /\ [][C3_CreateFailureStep]_vars

\* a first run whose create failed
C3_Witness ==
    /\ starts[1] = 1
    /\ calls[1] # <<>>
    /\ calls[1][1].result \in {"raise", "empty"}
    /\ pc[1] = "Failed"
    /\ guestname[1] = NoneV

\* ------------------------------------------------------------------ C4
\* C4: an inspect answered with a terminal-failure status (Aborted, Error,
\* Cancelled) fails the run with a ProvisionError that carries that status.
C4_FailureCarriesStatus ==
    \A g \in Guests :
        ( /\ LastIsAnsweredInspect(g)
          /\ Last(calls[g]).status \in TerminalFailureStatuses )
        => ( /\ pc[g] = "Failed"
             /\ error[g].exc = "ProvisionError"
             /\ error[g].status = Last(calls[g]).status )

\* ------------------------------------------------------------------ C5
\* C5: an inspect answered with a terminal-failure status (Aborted, Error,
\* Cancelled) ends the run in failure at that poll.
C5_TerminalFailureFails ==
    \A g \in Guests :
        ( /\ LastIsAnsweredInspect(g)
          /\ Last(calls[g]).status \in TerminalFailureStatuses )
        => pc[g] = "Failed"

\* ------------------------------------------------------------------ C6
\* C6 as stated: an inspect answered with Reserved or Completed ends the
\* run in success at that poll, and one answered with a still-working
\* status leaves the run polling.
C6_SuccessStatusesAreReady ==
    \A g \in Guests :
        LastIsAnsweredInspect(g) =>
            /\ Last(calls[g]).status \in TerminalSuccessStatuses
                   => pc[g] = "Ready"
            /\ Last(calls[g]).status \in StillWorkingStatuses
                   => pc[g] = "Polling"

\* C6 as amended: Reserved is the only status that ends the run in
\* success, at the poll that reads it; Completed leaves the run polling,
\* and so does every still-working status (New, Queued, Scheduled,
\* Processed, Waiting, Installing, Running).
C6_OnlyReservedIsReady ==
    \A g \in Guests :
        /\ LastIsAnsweredInspect(g) =>
              /\ Last(calls[g]).status = "Reserved"
                     => (pc[g] = "Ready" /\ error[g] = NoError)
              /\ Last(calls[g]).status
                        \in StillWorkingStatuses \cup {"Completed"}
                     => (pc[g] = "Polling" /\ error[g] = NoError)
        /\ pc[g] = "Ready" =>
              (LastIsAnsweredInspect(g) /\ Last(calls[g]).status = "Reserved")

\* a run that read Completed, went on polling and then read Reserved
C6_Witness ==
    /\ pc[1] = "Ready"
    /\ Len(calls[1]) = 3
    /\ calls[1][2].status = "Completed"
    /\ calls[1][3].status = "Reserved"

\* ------------------------------------------------------------------ C7
\* C7: an inspect answered with a string outside the known vocabulary
\* leaves the run polling: no success, no provider-reported failure.
C7_UnknownStatusKeepsPolling ==
    \A g \in Guests :
        ( /\ LastIsAnsweredInspect(g)
          /\ Last(calls[g]).status \notin KnownVocabulary )
        => pc[g] = "Polling"

\* ------------------------------------------------------------------ C8
IsFailedInspect(c) == c.op = "inspect" /\ c.result = "raise"

\* C8: the first inspect of a run that fails with a query error does not
\* end the run; polling continues.
C8_SingleInspectErrorIsNotFatal ==
    \A g \in Guests :
        ( /\ calls[g] # <<>>
          /\ IsFailedInspect(Last(calls[g]))
          /\ Len(SelectSeq(calls[g], IsFailedInspect)) = 1 )
        => pc[g] = "Polling"

\* ------------------------------------------------------------------ C9
\* C9: when the delete of the timeout handling raises, the caller still
\* gets the timeout error that names the configured timeout.
C9_DeleteFailureNotEscalated ==
    \A g \in Guests :
        ( /\ calls[g] # <<>>
          /\ Last(calls[g]).op = "delete"
          /\ Last(calls[g]).result = "raise" )
        => error[g] = TimeoutError(provision_timeout[g])

\* ----------------------------------------------------------------- C10
IsAnsweredInspect(c) == c.op = "inspect" /\ c.result = "ok"

\* C10: a run that inspected at least once and exited on the provider's
\* word or on the timeout hands its caller the last raw status, and a
\* fatal exit keeps the handle.
C10_ExitCarriesLastStatus ==
    \A g \in Guests :
        LET answered == SelectSeq(calls[g], IsAnsweredInspect) IN
        ( /\ RunEnded(g)
          /\ answered # <<>>
          /\ \/ pc[g] \in {"Ready", "TimedOut"}
             \/ pc[g] = "Failed" /\ LastIsAnsweredInspect(g) )
        => ( /\ error[g].status = Last(answered).status
             /\ pc[g] \in {"Failed", "TimedOut"}
                    => bkr_job_id[g] = calls[g][1].handle )

\* ----------------------------------------------------------------- C11
\* C11: a run that ended on a terminal-failure status issued no delete;
\* within a run a delete is issued only by the timeout handling, as the
\* last call of a run that timed out.
C11_DeleteOnlyOnTimeout ==
    \A g \in Guests :
        /\ \A i \in 1..Len(calls[g]) :
              calls[g][i].op = "delete" =>
                  /\ i = Len(calls[g])
                  /\ pc[g] = "TimedOut"
                  /\ DeadlineReached(g)
        /\ pc[g] = "Failed" => Len(DeleteCalls(g)) = 0
        /\ pc[g] = "Ready" => Len(DeleteCalls(g)) = 0

\* a run that ended because an inspect read Cancelled or Aborted
C11_Witness ==
    /\ pc[1] = "Failed"
    /\ LastIsAnsweredInspect(1)
    /\ Last(calls[1]).status \in {"Aborted", "Cancelled"}
    /\ Len(DeleteCalls(1)) = 0

\* ----------------------------------------------------------------- C12
\* C12: a remove() that finds the job already gone at the backend (a
\* second remove(), or a remove() after the timeout handling deleted the
\* job) does not raise, and a remove() on a guest without guestname makes
\* no backend call.
C12_RemoveIsIdempotent ==
    \A g \in Guests :
        /\ teardown[g].gone => teardown[g].result = "ok"
        /\ teardown[g].result = "noop" => teardown[g].handle = NoneV
        /\ teardown[g].result \in {"ok", "raise"} => guestname[g] # NoneV

\* the log of a run: one create, at its head
C16_CreateFirstAndOnce ==
    \A g \in Guests :
        calls[g] # <<>> =>
            /\ calls[g][1].op = "create"
            /\ \A i \in 2..Len(calls[g]) : calls[g][i].op # "create"

\* a step that issues backend calls for guest g either opens a new run
\* with its create, or adds one inspect or delete to a run that is Polling
C16_CallsOnlyWhilePolling ==
    \A g \in Guests :
        calls'[g] # calls[g] =>
            \/ /\ pc[g] # "Polling"
               /\ starts'[g] = starts[g] + 1
               /\ Len(calls'[g]) = 1
               /\ calls'[g][1].op = "create"
            \/ /\ pc[g] = "Polling"
               /\ Len(calls'[g]) = Len(calls[g]) + 1
               /\ SubSeq(calls'[g], 1, Len(calls[g])) = calls[g]
               /\ Last(calls'[g]).op \in {"inspect", "delete"}

\* C16: within one provisioning run create is submitted exactly once and
\* before any inspect, inspect is called only while the run is Polling,
\* and once the run is Ready, Failed or TimedOut no inspect or create is
\* issued for it any more.
C16_CreateOnceInspectWhilePolling ==
    []C16_CreateFirstAndOnce /\ [][C16_CallsOnlyWhilePolling]_vars

\* a run that created, polled a pending status and then became Ready
C16_Witness ==
    \E g \in Guests :
        /\ pc[g] = "Ready"
        /\ Len(calls[g]) >= 3
        /\ calls[g][1].op = "create"
        /\ \A i \in 2..Len(calls[g]) : calls[g][i].op = "inspect"

\* what controller g holds, and the backend jobs its creates returned
GuestState(g) ==
    <<pc[g], guestname[g], guest[g], bkr_job_id[g], elapsed[g], calls[g],
      error[g], progress[g], teardown[g]>>
OwnJobs(g) == {n \in DOMAIN jobs : jobs[n].owner = g}

\* every inspect and delete of g names the job its own create returned
C17_OwnHandle ==
    \A g \in Guests :
        /\ \A i \in 1..Len(calls[g]) :
              calls[g][i].op \in {"inspect", "delete"} =>
                  /\ calls[g][i].handle = calls[g][1].handle
                  /\ calls[g][i].handle[2] \in OwnJobs(g)
        /\ teardown[g].result \in {"ok", "raise"} =>
              teardown[g].handle[2] \in OwnJobs(g)

\* a step of one controller leaves every other controller, and the jobs
\* of every other controller, as they were
C17_StepIsolated ==
    \A g \in Guests : \A h \in Guests \ {g} :
        GuestState(g)' # GuestState(g) =>
            /\ GuestState(h)' = GuestState(h)
            /\ \A n \in OwnJobs(h) : jobs'[n] = jobs[n]

\* C17: when two controllers run their provisioning and teardown steps in
\* any interleaving, every inspect and delete a controller issues targets
\* the handle its own create returned, never that of the other, and the
\* outcome of one controller does not change the state of the other.
C17_ControllersAreIsolated ==
    []C17_OwnHandle /\ [][C17_StepIsolated]_vars

\* both controllers created and polled; one ended Ready and was removed,
\* the other ended Failed
C17_Witness ==
    /\ pc[1] = "Ready" /\ teardown[1].result = "ok"
    /\ pc[2] = "Failed" /\ Len(calls[2]) >= 2
    /\ calls[1][1].handle # calls[2][1].handle

\* --------------------------------------- two runs, two colour tables
\* other choices of display hints for the statuses of the table
AltColors ==
    [s \in DOMAIN GUEST_STATE_COLORS |->
        IF GUEST_STATE_COLORS[s] = "green" THEN "yellow" ELSE "green"]
Palettes ==
    {GUEST_STATE_COLORS, AltColors,
     [s \in DOMAIN GUEST_STATE_COLORS |-> GUEST_STATE_COLOR_DEFAULT]}

PairStatuses == {"New", "Reserved", "Cancelled", "Aborted", "Error"}

\* two freshly built guests with the same timeout and tick; the first
\* shows the statuses in the colours of the table, the second in any
\* palette
InitPair ==
    /\ pc = [g \in Guests |-> "idle"]
    /\ guestname = [g \in Guests |-> NoneV]
    /\ guest = [g \in Guests |-> NoneV]
    /\ bkr_job_id = [g \in Guests |-> NoneV]
    /\ provision_timeout = [g \in Guests |-> MaxTick]
    /\ provision_tick = [g \in Guests |-> 1]
    /\ elapsed = [g \in Guests |-> 0]
    /\ calls = [g \in Guests |-> <<>>]
    /\ error = [g \in Guests |-> NoError]
    /\ progress = [g \in Guests |-> NoneV]
    /\ starts = [g \in Guests |-> 0]
    /\ nextJob = 1
    /\ jobs = <<>>
    /\ teardown = [g \in Guests |-> NoRemoval]
    /\ colors \in {f \in [Guests -> Palettes] :
                      \A g \in Guests \ {2} : f[g] = GUEST_STATE_COLORS}
    /\ mem_string = <<>>
    /\ parsed = NotYet
    /\ hardware = NotYet
    /\ request = NotYet

\* the provisioning steps of a controller; teardown plays no part here
StepPair(g) ==
    \/ StartNoop(g)
    \/ StartCreateOk(g)
    \/ InspectOn(g, PairStatuses, {HostOf(bkr_job_id[g])})
    \/ InspectRaises(g)
    \/ WaitTimedOut(g)

NextPair == \E g \in PairGuests : StepPair(g)

SpecPair == InitPair /\ [][NextPair]_vars

\* what the backend fed the current run of g, answer by answer, and the
\* backend calls the run made
Fed(g) == [i \in 1..Len(calls[g]) |-> <<calls[g][i].result, calls[g][i].status>>]
Ops(g) == [i \in 1..Len(calls[g]) |-> calls[g][i].op]

\* C18: the outcome of a poll depends on the raw status alone: two runs
\* fed the same sequence of raw statuses are in the same place (waiting,
\* succeeded, failed) with the same error and the same sequence of create,
\* inspect and delete calls, whatever colour is shown for each status.
C18_OutcomeIgnoresColour ==
    (calls[1] # <<>> /\ Fed(1) = Fed(2))
        => /\ pc[1] = pc[2]
           /\ error[1] = error[2]
           /\ Ops(1) = Ops(2)

\* two runs fed New and then Reserved, shown in different colours, both
\* Ready
C18_Witness ==
    /\ Len(calls[1]) = 3 /\ Fed(1) = Fed(2)
    /\ calls[1][3].status = "Reserved"
    /\ progress[1] # progress[2]
    /\ pc[1] = "Ready" /\ pc[2] = "Ready"

\* C19: on a successful run the address the controller records is the
\* system field of the inspect response that was classified Ready, the
\* last inspect of the run; in every state before Ready is reached the
\* address is unset.
C19_AddressIsSystemOfReadyInspect ==
    \A g \in Guests :
        /\ pc[g] = "Ready" =>
              /\ Last(calls[g]).op = "inspect"
              /\ Classify(Last(calls[g]).status) = "Ready"
              /\ guest[g] = Last(calls[g]).system
        /\ pc[g] # "Ready" => guest[g] = NoneV

\* a run that polled a pending status, then read Reserved with a machine
C19_Witness ==
    \E g \in Guests :
        /\ pc[g] = "Ready"
        /\ Len(calls[g]) >= 3
        /\ guest[g] = HostOf(bkr_job_id[g])
        /\ guestname[g] = guest[g]

\* what start() must leave alone on a guest that is provisioned
GuestRecord(g) == <<guestname[g], guest[g], bkr_job_id[g], calls[g], pc[g]>>

\* C20: start() on a guest that has been provisioned issues no backend
\* call and leaves the guest record unchanged: after a successful run no
\* sequence of start() calls submits another create.
C20_StartAfterSuccessIsNoop ==
    [][\A g \in Guests :
          pc[g] = "Ready" =>
              /\ GuestRecord(g)' = GuestRecord(g)
              /\ nextJob' = nextJob]_vars

====
